---- MODULE Spec2Model ----
(***************************************************************************)
(* Slot reservation and appointment lifecycle of the booking bot.         *)
(*                                                                         *)
(* The database tables time_slots and appointments are the functions      *)
(* slots and appts (row id -> row).  Hours are integers on one day: the    *)
(* bookable hours are 1..NumHours, and the hours 0 and NumHours+1 exist    *)
(* only as buffer rows.  Spec runs every handler as one action (one        *)
(* session, one commit).  SpecConc runs create_appointment one await at a  *)
(* time, each request in its own session, reading committed rows           *)
(* (PostgreSQL READ COMMITTED) and writing its changed rows at the commit. *)
(* In Spec the wall clock stays before every slot, so the past-date        *)
(* rejection of confirm_appointment never triggers and the completion      *)
(* sweep finds nothing to complete.                                        *)
(***************************************************************************)
EXTENDS Integers, FiniteSets, Sequences, TLC

VARIABLES slots, appts, apptSeq, adminFsm, editFsm, clientFsm, last, tasks, now, sched, swept,
          cal, faults, running, jobs

\* now is the wall clock, sched the outcome of the last scheduler run, swept
\* the appointments send_completion_message has been called for so far, cal
\* the month process_auto_month is asked to fill, on the real calendar,
\* faults the number of failures (a commit that raises, an exception in a
\* scheduler tick) the environment may still cause, running whether the
\* scheduler still fires its jobs, jobs the scheduler runs that are suspended
\* at an await, editFsm the appointment an admin in state
\* editing_appointment_field is editing the price of
vars == <<slots, appts, apptSeq, adminFsm, editFsm, clientFsm, last, tasks, now, sched, swept,
         cal, faults, running, jobs>>

(* ------------------------------ bounds -------------------------------- *)
NumHours == 3
MaxAppts == 2
MaxCopies == 2
NumAdmins == 2
MaxPrice == 2
MaxTasks == 2
TicksPerHour == 1
MonthLen == 8
MaxOther == 1
MaxFaults == 1
MaxSweeps == 2

(* ----------------------------- constants ------------------------------ *)
ServicePrice == 1
ServiceDuration == 1
HoursPerDay == 24
DaysPerWeek == 7

BookHours == 1..NumHours
Hours == 0..(NumHours + 1)

\* time_slots.id is an opaque key (no handler orders or compares ids except
\* for equality), so a row is named by its hour and by which copy of that
\* hour it is, instead of by the value of the id sequence
SlotId(h, k) == k * (NumHours + 2) + h + 1
SlotIds == 1..(MaxCopies * (NumHours + 2))
ApptIds == 1..MaxAppts
Admins == 1..NumAdmins
\* the admin whose flows Spec, SpecConc and SpecSched follow; SpecAdmins
\* follows all of them
OnDuty == {1}
Tasks == 1..MaxTasks
Prices == 0..MaxPrice

None == 0
Multiple == -1

AdminReason == "no_comment"
ClientReason == "plans"
NoReason == ""

ActiveStatuses == {"PENDING", "CONFIRMED"}

(* ------------------------------- clock -------------------------------- *)
\* datetime.now() is counted in ticks, TicksPerHour of them to the hour; the
\* slot of hour h starts at tick Start(h); the one service takes
\* ServiceDuration ticks
Start(h) == h * TicksPerHour
Horizon == Start(NumHours) + ServiceDuration + 1

\* what the last run of a scheduler job did: the job, the clock it read, the
\* appointments it processed, those whose customer message was delivered and
\* the (appointment, admin) pairs whose admin message was delivered
Run(op, at, sel, client, admins) ==
  [op |-> op, at |-> at, selected |-> sel, client |-> client, admins |-> admins]
NoRun == Run("none", 0, {}, {}, {})

(* ------------------------------ calendar ----------------------------- *)
\* a timestamp of the calendar is a whole hour counted from 00:00 of the
\* first day of the selected month; day 1 is the first of the month
At(d, h) == (d - 1) * HoursPerDay + h
DayOf(t) == (t + HoursPerDay) \div HoursPerDay
HourOfDay(t) == (t + HoursPerDay) % HoursPerDay

\* date.weekday() of day d of a month whose first day has weekday first
\* (0 Monday .. 6 Sunday)
Weekday(first, d) == (first + d + DaysPerWeek - 1) % DaysPerWeek

\* TimeRanges with the closing hour included
TimeRangesInclusive(wd) ==
  IF wd = 6 THEN {} ELSE IF wd < 5 THEN 9..17 ELSE 10..13

\* the hours process_auto_month offers on a day: none on Sunday,
\* range(9, 17) Monday to Friday, range(10, 13) on Saturday
TimeRanges(wd) ==
  IF wd = 6 THEN {} ELSE IF wd < 5 THEN 9..16 ELSE 10..12

Max(x, y) == IF x >= y THEN x ELSE y

\* start_date = max(today, first of the month)
StartDate(clock) == Max(DayOf(clock), 1)

\* every slot_datetime the two loops of process_auto_month visit
MonthSchedule(first, clock) ==
  {t \in At(StartDate(clock), 0)..At(MonthLen, HoursPerDay - 1) :
     HourOfDay(t) \in TimeRanges(Weekday(first, DayOf(t)))}

\* SlotsToCreate counting only the rows that are still available as existing
SlotsToCreateAvailable(schedule, rows, clock) ==
  {t \in schedule : t > clock /\ t \notin {r.date : r \in {x \in rows : x.is_available}}}

\* slots_to_create: the visited timestamps that are not in the past
\* ("slot_datetime <= current_datetime: continue") and have no row yet
\* ("slot_key in existing_slots_set: continue")
SlotsToCreate(schedule, rows, clock) ==
  {t \in schedule : t > clock /\ t \notin {r.date : r \in rows}}

\* the preloaded rows: those from start_date 00:00 to the end of the month
ExistingInMonth(rows, clock) ==
  {r \in rows : /\ r.date >= At(StartDate(clock), 0)
                /\ r.date <= At(MonthLen, HoursPerDay - 1)}

Calendar(op, first, clock, rows, other) ==
  [op |-> op, first |-> first, now |-> clock, rows |-> rows, other |-> other]
NoCalendar == Calendar("none", 0, 0, {}, 0)

\* the moments the admin may press the button: the day before the month,
\* its first two days, its last day and the day after
NowTimes == {At(d, h) : d \in {0, 1, 2, MonthLen, MonthLen + 1}, h \in 0..(HoursPerDay - 1)}
\* the timestamps other handlers insert rows at in the calendar check
OtherTimes == {At(d, h) : d \in {2, MonthLen}, h \in {9, 12, 13}}

(* ------------------------------ queries ------------------------------- *)
\* select(TimeSlot).where(TimeSlot.date == h): the ids of the rows found
RowsAt(S, h) == {i \in DOMAIN S : S[i].date = h}

\* Result.scalar_one_or_none(): None, the one row, or MultipleResultsFound
ScalarOneOrNone(R) ==
  IF R = {} THEN None
  ELSE IF Cardinality(R) = 1 THEN CHOOSE i \in R : TRUE
  ELSE Multiple

\* slot.appointments restricted to PENDING and CONFIRMED
ActiveOn(A, s) == {a \in DOMAIN A : A[a].slot = s /\ A[a].status \in ActiveStatuses}

\* the id an INSERT of a row at hour h gets
FreshId(S, h) ==
  SlotId(h, CHOOSE k \in 0..MaxCopies :
              /\ SlotId(h, k) \notin DOMAIN S
              /\ \A j \in 0..(k - 1) : SlotId(h, j) \in DOMAIN S)

\* session.add(TimeSlot(date=h, is_available=avail))
InsertSlot(S, h, avail) == S @@ (FreshId(S, h) :> [date |-> h, is_available |-> avail])

\* BlockHour without its else branch: a missing row is not inserted
BlockHourNoInsert(S, r, h) ==
  IF r = None THEN S ELSE [S EXCEPT ![r].is_available = FALSE]

\* BlockHour adding a row whether or not the hour has one
BlockHourAlwaysInsert(S, r, h) == InsertSlot(S, h, FALSE)

\* "if slot: slot.is_available = False  else: session.add(TimeSlot(date, False))"
BlockHour(S, r, h) ==
  IF r = None THEN InsertSlot(S, h, FALSE)
  ELSE [S EXCEPT ![r].is_available = FALSE]

\* BlockNeighbours without the previous-hour block
BlockNextOnly(S, h, nx, pv) == BlockHour(S, nx, h + 1)

\* the next-hour block followed by the previous-hour block, as one commit:
\* nx and pv are the rows the two SELECTs returned (None: insert a row)
BlockNeighbours(S, h, nx, pv) == BlockHour(BlockHour(S, nx, h + 1), pv, h - 1)

\* the rows at hour h stay within MaxCopies when one more is inserted
CanInsert(S, h) == Cardinality(RowsAt(S, h)) < MaxCopies

NewAppointment(s) ==
  [slot |-> s, status |-> "PENDING", confirmed_at |-> FALSE,
   final_price |-> ServicePrice, cancellation_reason |-> NoReason, notified |-> FALSE]

\* what the last handler did: its name, the appointment and slot rows it
\* found (0 when the id it was given names no row), its outcome, whether it
\* sent the customer a notification, the price it stored, the hours at which
\* it inserted a TimeSlot row, and the appointment that the handler right
\* before it created (0 when that handler created none)
Done(op, a, s, res) ==
  [op |-> op, appt |-> a, slot |-> s, res |-> res, sent |-> FALSE, price |-> 0,
   inserted |-> {}, follows |-> 0]
DoneSent(op, a, s, res, price) ==
  [op |-> op, appt |-> a, slot |-> s, res |-> res, sent |-> TRUE, price |-> price,
   inserted |-> {}, follows |-> 0]

\* the hours at which BlockNeighbours inserts a row
Inserted(h, nx, pv) ==
  (IF nx = None THEN {h + 1} ELSE {}) \cup (IF pv = None THEN {h - 1} ELSE {})

\* CancelWrites with the next-hour release not guarded by confirmed_at
CancelWritesAlways(S, A, a, reason) ==
  LET s == A[a].slot
      nx == ScalarOneOrNone(RowsAt(S, S[s].date + 1))
      S1 == [S EXCEPT ![s].is_available = TRUE]
  IN [failed |-> nx = Multiple,
      appts |-> [A EXCEPT ![a].status = "CANCELLED", ![a].cancellation_reason = reason],
      slots |-> IF nx \in {None, Multiple} THEN S1 ELSE [S1 EXCEPT ![nx].is_available = TRUE]]

\* the body shared by cancel_appointment and the two client cancel handlers:
\* status and reason are set, the own slot is released and, when confirmed_at
\* is set, the row of the next hour is released too
CancelWrites(S, A, a, reason) ==
  LET s == A[a].slot
      nx == IF A[a].confirmed_at THEN ScalarOneOrNone(RowsAt(S, S[s].date + 1)) ELSE None
      S1 == [S EXCEPT ![s].is_available = TRUE]
  IN [failed |-> nx = Multiple,
      appts |-> [A EXCEPT ![a].status = "CANCELLED", ![a].cancellation_reason = reason],
      slots |-> IF nx \in {None, Multiple} THEN S1 ELSE [S1 EXCEPT ![nx].is_available = TRUE]]

\* a create_appointment request that has not started: pc is the await it
\* stands at, slot/hour/nx/pv are what its session has read so far, nxw/pvw
\* say whether it changed the neighbour row it read (the row was available),
\* peer is a request that stood between its check and its commit on the same
\* slot when this one passed the check
\* AfterNotify undoing the writes when the customer could not be reached
AfterNotifyRollback(before, after, sent) == IF sent THEN after ELSE before

\* what the database holds once the customer notification was attempted:
\* session.commit() comes before bot.send_message, whose failure is caught
\* and logged
AfterNotify(before, after, sent) == after

\* Commit keeping the writes of a commit that raised
CommitAnyway(before, after, committed) == after

\* session.commit(): the flushed writes become the table's content, or the
\* commit raises and the session ends without them
Commit(before, after, committed) == IF committed THEN after ELSE before

\* whether a commit may raise
CommitOutcomes(f) == IF f > 0 THEN BOOLEAN ELSE {TRUE}

\* a scheduler run that is not in flight
IdleJob == [pc |-> "idle", read |-> {}, at |-> 0, cur |-> 0]
SweepIds == 1..MaxSweeps

IdleTask ==
  [pc |-> "idle", slot |-> 0, hour |-> 0, nx |-> 0, nxw |-> FALSE, pv |-> 0, pvw |-> FALSE,
   res |-> "", peer |-> 0]

(* ------------------------------- Init --------------------------------- *)
Init ==
  /\ slots = <<>>
  /\ appts = <<>>
  /\ apptSeq = 0
  /\ adminFsm = [ad \in Admins |-> 0]
  /\ editFsm = [ad \in Admins |-> 0]
  /\ clientFsm = {}
  /\ last = Done("init", 0, 0, "ok")
  /\ tasks = [t \in Tasks |-> IdleTask]
  /\ now = 0
  /\ sched = NoRun
  /\ swept = {}
  /\ cal = NoCalendar
  /\ faults = 0
  /\ running = TRUE
  /\ jobs = [sweep |-> [j \in SweepIds |-> IdleJob], reminder |-> IdleJob,
            delete |-> IdleJob]

\* the same start with a database and a network that may fail
InitFaulty ==
  /\ slots = <<>>
  /\ appts = <<>>
  /\ apptSeq = 0
  /\ adminFsm = [ad \in Admins |-> 0]
  /\ editFsm = [ad \in Admins |-> 0]
  /\ clientFsm = {}
  /\ last = Done("init", 0, 0, "ok")
  /\ tasks = [t \in Tasks |-> IdleTask]
  /\ now = 0
  /\ sched = NoRun
  /\ swept = {}
  /\ cal = NoCalendar
  /\ faults = MaxFaults
  /\ running = TRUE
  /\ jobs = [sweep |-> [j \in SweepIds |-> IdleJob], reminder |-> IdleJob,
            delete |-> IdleJob]

(* ------------------------- slot administration ------------------------ *)
\* admin process_time_selection: one new slot at hour h
AddSlot(h) ==
  LET conflict ==
        \E a \in DOMAIN appts :
          LET at == slots[appts[a].slot].date IN
            \/ at = h
            \/ appts[a].status = "CONFIRMED" /\ (at + 1 = h \/ h + 1 = at)
  IN
  /\ IF RowsAt(slots, h) # {} \/ conflict
     THEN /\ last' = Done("add_slot", 0, 0, "rejected")
          /\ UNCHANGED slots
     ELSE /\ slots' = InsertSlot(slots, h, TRUE)
          /\ last' = Done("add_slot", 0, FreshId(slots, h), "ok")
  /\ UNCHANGED <<appts, apptSeq, adminFsm, editFsm, clientFsm, tasks, now, sched, swept, cal, faults, running, jobs>>

(* ------------------------------ booking ------------------------------- *)
\* create_appointment for the slot id the customer selected earlier
CreateAppointment(s) ==
  /\ IF s \notin DOMAIN slots
     THEN /\ last' = Done("create", 0, 0, "rejected")
          /\ UNCHANGED <<slots, appts, apptSeq>>
     ELSE IF ~slots[s].is_available
     THEN /\ last' = [Done("create", 0, s, "rejected") EXCEPT
                         !.follows = IF last.op = "create" /\ last.res = "ok"
                                     THEN last.appt ELSE 0]
          /\ UNCHANGED <<slots, appts, apptSeq>>
     ELSE LET h == slots[s].date
              nx == ScalarOneOrNone(RowsAt(slots, h + 1))
              pv == ScalarOneOrNone(RowsAt(slots, h - 1))
          IN
          /\ h \in BookHours
          /\ IF nx = Multiple \/ pv = Multiple
             THEN /\ last' = Done("create", 0, s, "error")
                  /\ UNCHANGED <<slots, appts, apptSeq>>
             ELSE \E committed \in CommitOutcomes(faults) :
                  /\ apptSeq < MaxAppts
                  /\ slots' = Commit(slots,
                                     BlockNeighbours([slots EXCEPT ![s].is_available = FALSE],
                                                     h, nx, pv),
                                     committed)
                  /\ appts' = Commit(appts, appts @@ ((apptSeq + 1) :> NewAppointment(s)),
                                     committed)
                  /\ apptSeq' = Commit(apptSeq, apptSeq + 1, committed)
                  /\ last' = IF committed
                             THEN [Done("create", apptSeq + 1, s, "ok") EXCEPT
                                      !.inserted = Inserted(h, nx, pv)]
                             ELSE Done("create", 0, s, "commit_failed")
  /\ faults' = IF last'.res = "commit_failed" THEN faults - 1 ELSE faults
  /\ UNCHANGED <<adminFsm, editFsm, clientFsm, tasks, now, sched, swept, cal, running, jobs>>

\* admin process_auto_month: a row for every bookable hour that has none
AutoMonth(ad) ==
  LET missing == SlotsToCreate(BookHours, {slots[i] : i \in DOMAIN slots},
                               now \div TicksPerHour)
      newIds == {FreshId(slots, h) : h \in missing}
      hourOf(i) == CHOOSE h \in missing : FreshId(slots, h) = i
  IN
  /\ slots' = [i \in DOMAIN slots \cup newIds |->
                 IF i \in DOMAIN slots THEN slots[i]
                 ELSE [date |-> hourOf(i), is_available |-> TRUE]]
  /\ adminFsm' = [adminFsm EXCEPT ![ad] = 0]
  /\ editFsm' = [editFsm EXCEPT ![ad] = 0]
  /\ last' = Done("auto_month", 0, 0, IF missing = {} THEN "nothing" ELSE "ok")
  /\ UNCHANGED <<appts, apptSeq, clientFsm, tasks, now, sched, swept, cal, faults, running, jobs>>

\* process_auto_month on the calendar: the selected month's first weekday
\* and the moment of the click are in cal
ProcessAutoMonth ==
  LET new == SlotsToCreate(MonthSchedule(cal.first, cal.now),
                           ExistingInMonth(cal.rows, cal.now), cal.now)
  IN
  /\ cal.op # "none"
  /\ cal' = [cal EXCEPT !.op = "auto_month",
                        !.rows = @ \cup {[date |-> t, is_available |-> TRUE] : t \in new}]
  /\ UNCHANGED <<slots, appts, apptSeq, adminFsm, editFsm, clientFsm, last, tasks, now, sched, swept, faults, running, jobs>>

\* a row another handler commits: a manual slot, or a buffer row of a booking
OtherInsert(t, avail) ==
  /\ cal.op # "none"
  /\ cal.other < MaxOther
  /\ cal' = [cal EXCEPT !.op = "insert",
                        !.rows = @ \cup {[date |-> t, is_available |-> avail]},
                        !.other = @ + 1]
  /\ UNCHANGED <<slots, appts, apptSeq, adminFsm, editFsm, clientFsm, last, tasks, now, sched, swept, faults, running, jobs>>

\* the admin opens the month menu at some moment, for a month that starts on
\* some weekday
InitCalendar ==
  /\ slots = <<>>
  /\ appts = <<>>
  /\ apptSeq = 0
  /\ adminFsm = [ad \in Admins |-> 0]
  /\ editFsm = [ad \in Admins |-> 0]
  /\ clientFsm = {}
  /\ last = Done("init", 0, 0, "ok")
  /\ tasks = [t \in Tasks |-> IdleTask]
  /\ now = 0
  /\ sched = NoRun
  /\ swept = {}
  /\ faults = 0
  /\ running = TRUE
  /\ jobs = [sweep |-> [j \in SweepIds |-> IdleJob], reminder |-> IdleJob,
            delete |-> IdleJob]
  /\ \E first \in 0..(DaysPerWeek - 1), clock \in NowTimes :
       cal = Calendar("menu", first, clock, {}, 0)

\* admin delete_time_slot
DeleteSlot(s) ==
  /\ IF s \notin DOMAIN slots
     THEN /\ last' = Done("delete_slot", 0, 0, "notfound")
          /\ UNCHANGED <<slots, appts>>
     ELSE IF ActiveOn(appts, s) # {}
     THEN /\ last' = Done("delete_slot", 0, s, "rejected")
          /\ UNCHANGED <<slots, appts>>
     ELSE /\ appts' = [a \in {b \in DOMAIN appts : appts[b].slot # s} |-> appts[a]]
          /\ slots' = [i \in DOMAIN slots \ {s} |-> slots[i]]
          /\ last' = Done("delete_slot", 0, s, "ok")
  /\ UNCHANGED <<apptSeq, adminFsm, editFsm, clientFsm, tasks, now, sched, swept, cal, faults, running, jobs>>

\* the rows of appointments whose time_slot_id is s
OnSlot(A, s) == {a \in DOMAIN A : A[a].slot = s}

\* "time_slot_id ... ForeignKey('time_slots.id')": the DELETE of row s of
\* time_slots is accepted when no appointment is left that refers to it,
\* the rows in loaded having been deleted in the same flush
ForeignKeyHolds(A, s, loaded) == OnSlot(A, s) \subseteq loaded

\* delete_time_slot up to its check: the slot and slot.appointments are
\* loaded into the handler's session (read: the appointments, cur: the slot)
DeleteRead(s) ==
  /\ jobs.delete.pc = "idle"
  /\ IF s \notin DOMAIN slots
     THEN /\ last' = Done("delete_slot", 0, 0, "notfound")
          /\ UNCHANGED jobs
     ELSE IF ActiveOn(appts, s) # {}
     THEN /\ last' = Done("delete_slot", 0, s, "rejected")
          /\ UNCHANGED jobs
     ELSE /\ last' = Done("delete_slot", 0, s, "checked")
          /\ jobs' = [jobs EXCEPT !.delete =
                        [pc |-> "checked", read |-> OnSlot(appts, s), at |-> now, cur |-> s]]
  /\ UNCHANGED <<slots, appts, apptSeq, adminFsm, editFsm, clientFsm, tasks, now, sched, swept, cal,
                 faults, running>>

\* the rest of delete_time_slot: session.delete for every loaded appointment
\* and for the slot, then the commit; a commit the database refuses is
\* rolled back in the except block
DeleteCommit ==
  LET s == jobs.delete.cur
      loaded == jobs.delete.read
  IN
  /\ jobs.delete.pc = "checked"
  /\ IF ForeignKeyHolds(appts, s, loaded)
     THEN /\ appts' = [a \in DOMAIN appts \ loaded |-> appts[a]]
          /\ slots' = [i \in DOMAIN slots \ {s} |-> slots[i]]
          /\ last' = Done("delete_slot", 0, s, "ok")
     ELSE /\ last' = Done("delete_slot", 0, s, "error")
          /\ UNCHANGED <<slots, appts>>
  /\ jobs' = [jobs EXCEPT !.delete = IdleJob]
  /\ UNCHANGED <<apptSeq, adminFsm, editFsm, clientFsm, tasks, now, sched, swept, cal, faults, running>>

(* ---------------------------- confirmation ---------------------------- *)
\* the overlap query of confirm_appointment: CONFIRMED rows of other
\* appointments whose slot has the same date
Overlapping(a) ==
  {b \in DOMAIN appts : /\ b # a
                        /\ appts[b].status = "CONFIRMED"
                        /\ slots[appts[b].slot].date = slots[appts[a].slot].date}

\* admin confirm_appointment (the "confirm" button): on acceptance the admin
\* is put in state setting_appointment_price with this appointment id
ConfirmAppointment(ad, a) ==
  LET res == IF a \notin DOMAIN appts THEN "notfound"
             ELSE IF Start(slots[appts[a].slot].date) < now THEN "past"
             ELSE IF appts[a].status = "CONFIRMED" THEN "already_confirmed"
             ELSE IF appts[a].status = "CANCELLED" THEN "already_cancelled"
             ELSE IF ScalarOneOrNone(Overlapping(a)) = Multiple THEN "error"
             ELSE IF ScalarOneOrNone(Overlapping(a)) # None THEN "overlap"
             ELSE "ok"
  IN
  /\ adminFsm' = [adminFsm EXCEPT ![ad] = IF res = "ok" THEN a ELSE 0]
  /\ editFsm' = [editFsm EXCEPT ![ad] = 0]
  /\ last' = Done("confirm", IF res = "notfound" THEN 0 ELSE a, 0, res)
  /\ UNCHANGED <<slots, appts, apptSeq, clientFsm, tasks, now, sched, swept, cal, faults, running, jobs>>

\* admin process_appointment_price: the price message that ends the flow
ProcessAppointmentPrice(ad, price) ==
  LET a == adminFsm[ad] IN
  /\ a # 0
  /\ IF price <= 0
     THEN /\ last' = Done("price", a, 0, "bad_price")
          /\ UNCHANGED <<slots, appts, adminFsm>>
     ELSE IF a \notin DOMAIN appts
     THEN /\ last' = Done("price", 0, 0, "notfound")
          /\ adminFsm' = [adminFsm EXCEPT ![ad] = 0]
          /\ UNCHANGED <<slots, appts>>
     ELSE LET s == appts[a].slot
              h == slots[s].date
              nx == ScalarOneOrNone(RowsAt(slots, h + 1))
              pv == ScalarOneOrNone(RowsAt(slots, h - 1))
          IN
          IF nx = Multiple \/ pv = Multiple
          THEN /\ last' = Done("price", a, s, "error")
               /\ adminFsm' = [adminFsm EXCEPT ![ad] = 0]
               /\ UNCHANGED <<slots, appts>>
          ELSE \E committed \in CommitOutcomes(faults), sent \in BOOLEAN :
               /\ committed \/ ~sent
               /\ appts' = Commit(appts,
                                  AfterNotify(appts,
                                              [appts EXCEPT ![a].status = "CONFIRMED",
                                                            ![a].confirmed_at = TRUE,
                                                            ![a].final_price = price],
                                              sent),
                                  committed)
               /\ slots' = Commit(slots,
                                  AfterNotify(slots, BlockNeighbours(slots, h, nx, pv), sent),
                                  committed)
               /\ adminFsm' = [adminFsm EXCEPT ![ad] = 0]
               /\ last' = IF committed
                          THEN [DoneSent("price", a, s, "ok", price) EXCEPT
                                   !.sent = sent,
                                   !.inserted = Inserted(h, nx, pv)]
                          ELSE Done("price", a, s, "commit_failed")
  /\ faults' = IF last'.res = "commit_failed" THEN faults - 1 ELSE faults
  /\ UNCHANGED <<apptSeq, editFsm, clientFsm, tasks, now, sched, swept, cal, running, jobs>>

\* admin edit flow up to the prompt of the price field:
\* start_edit_appointment, process_appointment_id with the id the admin
\* typed, edit_appointment_field for "edit_field_price"
ProcessAppointmentId(ad, a) ==
  /\ adminFsm' = [adminFsm EXCEPT ![ad] = 0]
  /\ editFsm' = [editFsm EXCEPT ![ad] = IF a \in DOMAIN appts THEN a ELSE 0]
  /\ last' = Done("edit", IF a \in DOMAIN appts THEN a ELSE 0, 0,
                  IF a \in DOMAIN appts THEN "ok" ELSE "notfound")
  /\ UNCHANGED <<slots, appts, apptSeq, clientFsm, tasks, now, sched, swept, cal, faults,
                 running, jobs>>

\* "appointment.final_price = int(message.text)"
SavedPrice(A, a, price) == [A EXCEPT ![a].final_price = price]

\* admin save_edited_field for the field "price": the typed integer is
\* stored and committed, the state is cleared
SaveEditedField(ad, price) ==
  LET a == editFsm[ad] IN
  /\ a # 0
  /\ IF a \notin DOMAIN appts
     THEN /\ last' = Done("save_price", 0, 0, "notfound")
          /\ UNCHANGED appts
     ELSE /\ appts' = SavedPrice(appts, a, price)
          /\ last' = DoneSent("save_price", a, appts[a].slot, "ok", price)
  /\ editFsm' = [editFsm EXCEPT ![ad] = 0]
  /\ UNCHANGED <<slots, apptSeq, adminFsm, clientFsm, tasks, now, sched, swept, cal, faults,
                 running, jobs>>

(* ---------------------------- cancellation ---------------------------- *)
\* admin cancel_without_comment -> cancel_appointment(appointment, reason)
AdminCancel(ad, a) ==
  /\ IF a \notin DOMAIN appts
     THEN /\ last' = Done("admin_cancel", 0, 0, "notfound")
          /\ UNCHANGED <<slots, appts, adminFsm>>
     ELSE LET w == CancelWrites(slots, appts, a, AdminReason) IN
          IF w.failed
          THEN /\ last' = Done("admin_cancel", a, appts[a].slot, "error")
               /\ UNCHANGED <<slots, appts, adminFsm>>
          ELSE \E committed \in CommitOutcomes(faults), sent \in BOOLEAN :
               /\ committed \/ ~sent
               /\ slots' = Commit(slots, AfterNotify(slots, w.slots, sent), committed)
               /\ appts' = Commit(appts, AfterNotify(appts, w.appts, sent), committed)
               /\ adminFsm' = IF committed THEN [adminFsm EXCEPT ![ad] = 0] ELSE adminFsm
               /\ last' = IF committed
                          THEN [DoneSent("admin_cancel", a, appts[a].slot, "ok", 0)
                                  EXCEPT !.sent = sent]
                          ELSE Done("admin_cancel", a, appts[a].slot, "commit_failed")
  /\ faults' = IF last'.res = "commit_failed" THEN faults - 1 ELSE faults
  /\ editFsm' = IF last'.res = "ok" THEN [editFsm EXCEPT ![ad] = 0] ELSE editFsm
  /\ UNCHANGED <<apptSeq, clientFsm, tasks, now, sched, swept, cal, running, jobs>>

\* client start_cancel_appointment: the customer of appointment a asks to
\* cancel it and is shown the reasons
StartCancelAppointment(a) ==
  LET res == IF a \notin DOMAIN appts THEN "notfound"
             ELSE IF appts[a].status = "COMPLETED" THEN "completed"
             ELSE IF appts[a].status = "CANCELLED" THEN "already_cancelled"
             ELSE "ok"
  IN
  /\ clientFsm' = IF res = "ok" THEN clientFsm \cup {a} ELSE clientFsm
  /\ last' = Done("client_cancel_start", IF res = "notfound" THEN 0 ELSE a, 0, res)
  /\ UNCHANGED <<slots, appts, apptSeq, adminFsm, editFsm, tasks, now, sched, swept, cal, faults, running, jobs>>

\* client handle_cancel_reason_selection: the reason button
HandleCancelReasonSelection(a) ==
  /\ a \in clientFsm
  /\ IF a \notin DOMAIN appts
     THEN /\ last' = Done("client_cancel", 0, 0, "notfound")
          /\ UNCHANGED <<slots, appts, clientFsm>>
     ELSE LET w == CancelWrites(slots, appts, a, ClientReason) IN
          IF w.failed
          THEN /\ last' = Done("client_cancel", a, appts[a].slot, "error")
               /\ clientFsm' = clientFsm \ {a}
               /\ UNCHANGED <<slots, appts>>
          ELSE /\ slots' = w.slots
               /\ appts' = w.appts
               /\ clientFsm' = clientFsm \ {a}
               /\ last' = DoneSent("client_cancel", a, appts[a].slot, "ok", 0)
  /\ UNCHANGED <<apptSeq, adminFsm, editFsm, tasks, now, sched, swept, cal, faults, running, jobs>>

(* ------------- create_appointment, one await at a time ---------------- *)
\* Each request has its own session and transaction.  The session autoflushes
\* before every SELECT and at the commit: an attribute it changed is sent as
\* an UPDATE, which takes the row's lock until the transaction ends and waits
\* while another transaction holds it; a row it added is sent as an INSERT,
\* which other transactions see only after the commit.
InFlight(t) == tasks[t].pc \in {"got", "next", "prev"}

\* the rows whose UPDATE the request has flushed and not yet committed
Locks(t) ==
  IF tasks[t].pc = "next" THEN {tasks[t].slot}
  ELSE IF tasks[t].pc = "prev"
       THEN {tasks[t].slot} \cup (IF tasks[t].nxw THEN {tasks[t].nx} ELSE {})
  ELSE {}

\* the row whose UPDATE the request's next step flushes (None: no UPDATE)
Wants(t) ==
  IF tasks[t].pc = "got" THEN tasks[t].slot
  ELSE IF tasks[t].pc = "next" /\ tasks[t].nxw THEN tasks[t].nx
  ELSE IF tasks[t].pc = "prev" /\ tasks[t].pvw THEN tasks[t].pv
  ELSE None

\* the request whose lock t waits for (0: none, t can go on)
WaitsFor(t) ==
  IF Wants(t) = None \/ \A u \in Tasks \ {t} : Wants(t) \notin Locks(u) THEN 0
  ELSE CHOOSE u \in Tasks \ {t} : Wants(t) \in Locks(u)

RECURSIVE WaitChain(_, _)
WaitChain(t, n) == IF n = 0 \/ t = 0 THEN t ELSE WaitChain(WaitsFor(t), n - 1)

\* t is on a cycle of requests that wait for each other
Deadlocked(t) == \E n \in 1..MaxTasks : WaitChain(t, n) = t

\* time_slot = await session.get(TimeSlot, id) and the is_available check
CreateGet(t, s) ==
  /\ tasks[t].pc = "idle"
  /\ IF s \notin DOMAIN slots \/ ~slots[s].is_available
     THEN /\ tasks' = [tasks EXCEPT ![t] = [IdleTask EXCEPT !.pc = "done", !.slot = s,
                                                          !.res = "rejected"]]
          /\ last' = Done("create", 0, IF s \in DOMAIN slots THEN s ELSE 0, "rejected")
     ELSE /\ slots[s].date \in BookHours
          /\ \E p \in {0} \cup {u \in Tasks : u # t /\ InFlight(u) /\ tasks[u].slot = s} :
               /\ (p = 0) <=> (\A u \in Tasks : u # t => ~(InFlight(u) /\ tasks[u].slot = s))
               /\ tasks' = [tasks EXCEPT ![t] = [IdleTask EXCEPT !.pc = "got", !.slot = s,
                                                   !.hour = slots[s].date, !.peer = p]]
          /\ UNCHANGED last
  /\ UNCHANGED <<slots, appts, apptSeq, adminFsm, editFsm, clientFsm, now, sched, swept, cal, faults, running, jobs>>

\* time_slot.is_available = False, flushed by
\* next_slot = (await session.execute(select ... date == next_hour)).scalar_one_or_none()
CreateSelectNext(t) ==
  LET nx == ScalarOneOrNone(RowsAt(slots, tasks[t].hour + 1)) IN
  /\ tasks[t].pc = "got"
  /\ WaitsFor(t) = 0
  /\ IF nx = Multiple
     THEN /\ tasks' = [tasks EXCEPT ![t].pc = "done", ![t].res = "error"]
          /\ last' = Done("create", 0, tasks[t].slot, "error")
     ELSE /\ tasks' = [tasks EXCEPT ![t].pc = "next", ![t].nx = nx,
                                    ![t].nxw = (nx # None /\ slots[nx].is_available)]
          /\ UNCHANGED last
  /\ UNCHANGED <<slots, appts, apptSeq, adminFsm, editFsm, clientFsm, now, sched, swept, cal, faults, running, jobs>>

\* the next-hour change, flushed by
\* prev_slot = (await session.execute(select ... date == prev_hour)).scalar_one_or_none()
CreateSelectPrev(t) ==
  LET pv == ScalarOneOrNone(RowsAt(slots, tasks[t].hour - 1)) IN
  /\ tasks[t].pc = "next"
  /\ WaitsFor(t) = 0
  /\ IF pv = Multiple
     THEN /\ tasks' = [tasks EXCEPT ![t].pc = "done", ![t].res = "error"]
          /\ last' = Done("create", 0, tasks[t].slot, "error")
     ELSE /\ tasks' = [tasks EXCEPT ![t].pc = "prev", ![t].pv = pv,
                                    ![t].pvw = (pv # None /\ slots[pv].is_available)]
          /\ UNCHANGED last
  /\ UNCHANGED <<slots, appts, apptSeq, adminFsm, editFsm, clientFsm, now, sched, swept, cal, faults, running, jobs>>

\* what the transaction of a request writes when it commits: the own slot
\* and the neighbour rows it changed become unavailable, the neighbour rows
\* it added are inserted
CommitWrites(S, s, h, nx, nxw, pv, pvw) ==
  LET S1 == [S EXCEPT ![s].is_available = FALSE]
      S2 == IF nx = None \/ nxw THEN BlockHour(S1, nx, h + 1) ELSE S1
  IN IF pv = None \/ pvw THEN BlockHour(S2, pv, h - 1) ELSE S2

\* session.add(appointment); await session.commit()
CreateCommit(t) ==
  LET s == tasks[t].slot
      h == tasks[t].hour
      nx == tasks[t].nx
      pv == tasks[t].pv
  IN
  /\ tasks[t].pc = "prev"
  /\ WaitsFor(t) = 0
  /\ apptSeq < MaxAppts
  /\ nx = None => CanInsert(slots, h + 1)
  /\ pv = None => CanInsert(slots, h - 1)
  /\ slots' = CommitWrites(slots, s, h, nx, tasks[t].nxw, pv, tasks[t].pvw)
  /\ appts' = appts @@ ((apptSeq + 1) :> NewAppointment(s))
  /\ apptSeq' = apptSeq + 1
  /\ tasks' = [tasks EXCEPT ![t].pc = "done", ![t].res = "ok"]
  /\ last' = [Done("create", apptSeq + 1, s, "ok") EXCEPT
                 !.inserted = Inserted(h, nx, pv)]
  /\ UNCHANGED <<adminFsm, editFsm, clientFsm, now, sched, swept, cal, faults, running, jobs>>

\* PostgreSQL ends a cycle of waiting transactions by failing one of them
\* (deadlock detected); the handler's "except Exception" reports an error
\* and the closing session rolls the transaction back
CreateDeadlock(t) ==
  /\ Deadlocked(t)
  /\ tasks' = [tasks EXCEPT ![t].pc = "done", ![t].res = "error"]
  /\ last' = Done("create", 0, tasks[t].slot, "error")
  /\ UNCHANGED <<slots, appts, apptSeq, adminFsm, editFsm, clientFsm, now, sched, swept, cal, faults, running, jobs>>

(* ----------------------------- scheduler ------------------------------ *)
\* time passes
Tick ==
  /\ now < Horizon
  /\ now' = now + 1
  /\ UNCHANGED <<slots, appts, apptSeq, adminFsm, editFsm, clientFsm, last, tasks, sched, swept, cal, faults, running, jobs>>

\* the SELECT of update_completed_appointments: CONFIRMED, slot date < now
SweepSelected(A, S, clock) ==
  {a \in DOMAIN A : A[a].status = "CONFIRMED" /\ Start(S[A[a].slot].date) < clock}

\* Expired with the end instant itself counted as past
ExpiredAtEnd(A, S, a, clock) == clock >= Start(S[A[a].slot].date) + ServiceDuration

\* "if current_time > appointment_end_time"
Expired(A, S, a, clock) == clock > Start(S[A[a].slot].date) + ServiceDuration

\* ToComplete giving up when more than one appointment has expired
ToCompleteAlone(A, S, clock) ==
  LET exp == {a \in SweepSelected(A, S, clock) : Expired(A, S, a, clock)}
  IN  IF Cardinality(exp) > 1 THEN {} ELSE exp

\* the appointments a run of update_completed_appointments completes
ToComplete(A, S, clock) == {a \in SweepSelected(A, S, clock) : Expired(A, S, a, clock)}

\* where a scheduler tick can raise: in its SELECT, in the loop over the
\* appointments, in its commit, and in the rollback of its except block
RaisePoints == {"query", "loop", "commit", "rollback"}

\* Caught without the except of the job function around the rollback
CaughtInner(p) == p \in {"query", "loop", "commit"}

\* "except Exception" of update_completed_appointments and of
\* notify_admin_about_appointment covers the SELECT, the loop and the commit;
\* what session.rollback() raises in the except block of
\* update_completed_appointments is caught by check_appointments_status
Caught(p) == p \in {"query", "loop", "commit"} \/ p = "rollback"

\* the appointments a tick that raised at p had already called
\* send_completion_message for
MessagedBefore(p, done) ==
  IF p = "query" THEN {{}} ELSE IF p = "commit" THEN {done} ELSE SUBSET done

\* Completed marking the appointment as reminded as well
CompletedAndNotified(A, done) ==
  [a \in DOMAIN A |->
     IF a \in done THEN [A[a] EXCEPT !.status = "COMPLETED", !.notified = TRUE] ELSE A[a]]

\* "appointment.status = 'COMPLETED'" for every appointment of done that
\* still has a row
Completed(A, done) ==
  [a \in DOMAIN A |-> IF a \in done THEN [A[a] EXCEPT !.status = "COMPLETED"] ELSE A[a]]

\* check_appointments_status -> update_completed_appointments: every expired
\* CONFIRMED appointment is set to COMPLETED and send_completion_message is
\* called for it (delivered: the sends that did not fail); one commit. A tick
\* that raises is rolled back: sched.selected are then its candidates
CompletionSweep ==
  LET done == ToComplete(appts, slots, now) IN
  /\ running
  /\ \/ /\ \E delivered \in SUBSET done :
            sched' = Run("sweep", now, done, delivered, {})
        /\ appts' = Commit(appts, Completed(appts, done), TRUE)
        /\ swept' = swept \cup done
        /\ UNCHANGED <<faults, running>>
     \/ /\ faults > 0
        /\ \E p \in RaisePoints : \E messaged \in MessagedBefore(p, done) :
             /\ \E delivered \in SUBSET messaged :
                  sched' = Run("sweep_aborted", now, done, delivered, {})
             /\ swept' = swept \cup messaged
             /\ running' = Caught(p)
        /\ faults' = faults - 1
        /\ appts' = Commit(appts, Completed(appts, done), FALSE)
  /\ UNCHANGED <<slots, apptSeq, adminFsm, editFsm, clientFsm, last, tasks, now, cal, jobs>>

\* update_completed_appointments up to its first await after the SELECT:
\* run j (1: the scheduled job, 2: manage_schedule or view_date_slots of an
\* admin) has loaded its candidates into its own session
SweepRead(j) ==
  /\ running
  /\ jobs.sweep[j].pc = "idle"
  /\ jobs' = [jobs EXCEPT !.sweep[j] =
                [pc |-> "sending", read |-> ToComplete(appts, slots, now), at |-> now,
                 cur |-> 0]]
  /\ UNCHANGED <<slots, appts, apptSeq, adminFsm, editFsm, clientFsm, last, tasks, now, sched,
                 swept, cal, faults, running>>

\* the flush of the commit: "UPDATE appointments SET status = 'COMPLETED'
\* WHERE id = ..." for every object the loop assigned to
SweepWrites(A, read) == Completed(A, read)

\* the rest of run j: send_completion_message for every candidate it read,
\* then the commit of the statuses assigned in its session
SweepFinish(j) ==
  LET job == jobs.sweep[j] IN
  /\ job.pc = "sending"
  /\ \E committed \in CommitOutcomes(faults), delivered \in SUBSET job.read :
       /\ sched' = Run(IF committed THEN "sweep" ELSE "sweep_aborted",
                       job.at, job.read, delivered, {})
       /\ appts' = Commit(appts, SweepWrites(appts, job.read), committed)
       /\ faults' = IF committed THEN faults ELSE faults - 1
  /\ swept' = swept \cup job.read
  /\ jobs' = [jobs EXCEPT !.sweep[j] = IdleJob]
  /\ UNCHANGED <<slots, apptSeq, adminFsm, editFsm, clientFsm, last, tasks, now, cal, running>>

\* ReminderDue without the notified filter
ReminderDueAll(A, S, clock) ==
  {a \in DOMAIN A : /\ A[a].status = "CONFIRMED"
                    /\ Start(S[A[a].slot].date) > clock
                    /\ Start(S[A[a].slot].date) <= clock + TicksPerHour}

\* the SELECT of notify_admin_about_appointment: CONFIRMED, not notified,
\* now < slot date <= now + 1 hour
ReminderDue(A, S, clock) ==
  {a \in DOMAIN A : /\ A[a].status = "CONFIRMED"
                    /\ ~A[a].notified
                    /\ Start(S[A[a].slot].date) > clock
                    /\ Start(S[A[a].slot].date) <= clock + TicksPerHour}

\* AllSent satisfied by one admin's message
AllSentAny(a, client, admins) ==
  a \in client /\ \E ad \in Admins : <<a, ad>> \in admins

\* "if notifications_sent and admin_notifications_sent": the customer send
\* and the send to every admin succeeded
AllSent(a, client, admins) ==
  a \in client /\ \A ad \in Admins : <<a, ad>> \in admins

\* notify_admin_about_appointment: one reminder tick; a tick that raises
\* outside the try blocks of its sends ends without its commit
ReminderTick ==
  LET due == ReminderDue(appts, slots, now) IN
  /\ running
  /\ \E client \in SUBSET due, admins \in SUBSET (due \X Admins) :
       \/ /\ sched' = Run("reminder", now, due, client, admins)
          /\ appts' = [a \in DOMAIN appts |->
                         IF a \in due /\ AllSent(a, client, admins)
                         THEN [appts[a] EXCEPT !.notified = TRUE] ELSE appts[a]]
          /\ UNCHANGED <<faults, running>>
       \/ /\ faults > 0
          /\ sched' = Run("reminder_aborted", now, due, client, admins)
          /\ \E p \in RaisePoints \ {"rollback"} :
               /\ p = "query" => client = {} /\ admins = {}
               /\ running' = Caught(p)
          /\ faults' = faults - 1
          /\ UNCHANGED appts
  /\ UNCHANGED <<slots, apptSeq, adminFsm, editFsm, clientFsm, last, tasks, now, swept, cal, jobs>>

\* notify_admin_about_appointment up to the end of its SELECT: the job holds
\* the appointments it loaded (read: those it has not sent for yet)
ReminderQuery ==
  LET due == ReminderDue(appts, slots, now) IN
  /\ running
  /\ jobs.reminder.pc = "idle"
  /\ jobs' = [jobs EXCEPT !.reminder = [pc |-> "next", read |-> due, at |-> now, cur |-> 0]]
  /\ sched' = Run("reminder_query", now, due, {}, {})
  /\ UNCHANGED <<slots, appts, apptSeq, adminFsm, editFsm, clientFsm, last, tasks, now, swept, cal,
                 faults, running>>

\* the next appointment of the loop: "await bot.send_message" to its customer
ReminderSendClient(a) ==
  /\ jobs.reminder.pc = "next"
  /\ a \in jobs.reminder.read
  /\ jobs' = [jobs EXCEPT !.reminder.pc = "admins", !.reminder.cur = a,
                          !.reminder.read = @ \ {a}]
  /\ \E ok \in BOOLEAN :
       sched' = [sched EXCEPT !.op = "reminder_client",
                              !.client = IF ok THEN @ \cup {a} ELSE @]
  /\ UNCHANGED <<slots, appts, apptSeq, adminFsm, editFsm, clientFsm, last, tasks, now, swept, cal,
                 faults, running>>

\* "for admin_id in settings.admin_ids: await bot.send_message" for the
\* appointment whose customer message has just been sent
ReminderSendAdmins ==
  /\ jobs.reminder.pc = "admins"
  /\ jobs' = [jobs EXCEPT !.reminder.pc = "next", !.reminder.cur = 0]
  /\ \E ok \in SUBSET Admins :
       sched' = [sched EXCEPT !.op = "reminder_admins",
                              !.admins = @ \cup ({jobs.reminder.cur} \X ok)]
  /\ UNCHANGED <<slots, appts, apptSeq, adminFsm, editFsm, clientFsm, last, tasks, now, swept, cal,
                 faults, running>>

\* the flush of the tick's commit: "UPDATE appointments SET notified = true
\* WHERE id = ..." for every object the loop assigned to
ReminderWrites(A, sel, client, admins) ==
  [a \in DOMAIN A |->
     IF a \in sel /\ AllSent(a, client, admins)
     THEN [A[a] EXCEPT !.notified = TRUE] ELSE A[a]]

\* the end of the loop: the single commit of the tick
ReminderCommit ==
  /\ jobs.reminder.pc = "next"
  /\ jobs.reminder.read = {}
  /\ appts' = ReminderWrites(appts, sched.selected, sched.client, sched.admins)
  /\ sched' = [sched EXCEPT !.op = "reminder"]
  /\ jobs' = [jobs EXCEPT !.reminder = IdleJob]
  /\ UNCHANGED <<slots, apptSeq, adminFsm, editFsm, clientFsm, last, tasks, now, swept, cal,
                 faults, running>>

(* --------------------------- specifications --------------------------- *)
Next ==
  \/ \E h \in BookHours : AddSlot(h)
  \/ \E ad \in OnDuty : AutoMonth(ad)
  \/ \E s \in SlotIds : DeleteSlot(s)
  \/ \E s \in SlotIds : CreateAppointment(s)
  \/ \E ad \in OnDuty, a \in ApptIds : ConfirmAppointment(ad, a)
  \/ \E ad \in OnDuty, p \in Prices : ProcessAppointmentPrice(ad, p)
  \/ \E ad \in OnDuty, a \in ApptIds : AdminCancel(ad, a)
  \/ \E a \in ApptIds : StartCancelAppointment(a)
  \/ \E a \in ApptIds : HandleCancelReasonSelection(a)

Spec == Init /\ [][Next]_vars

NextConc ==
  \/ \E h \in BookHours : AddSlot(h)
  \/ \E ad \in OnDuty : AutoMonth(ad)
  \/ \E t \in Tasks, s \in SlotIds : CreateGet(t, s)
  \/ \E t \in Tasks : CreateSelectNext(t)
  \/ \E t \in Tasks : CreateSelectPrev(t)
  \/ \E t \in Tasks : CreateCommit(t)
  \/ \E t \in Tasks : CreateDeadlock(t)

SpecConc == Init /\ [][NextConc]_vars

\* the handlers of the confirm and cancel flows with the clock and the two
\* scheduler jobs
NextSched ==
  \/ \E h \in BookHours : AddSlot(h)
  \/ \E s \in SlotIds : CreateAppointment(s)
  \/ \E ad \in OnDuty, a \in ApptIds : ConfirmAppointment(ad, a)
  \/ \E ad \in OnDuty, p \in Prices : ProcessAppointmentPrice(ad, p)
  \/ \E ad \in OnDuty, a \in ApptIds : AdminCancel(ad, a)
  \/ Tick
  \/ CompletionSweep
  \/ ReminderTick

SpecSched == Init /\ [][NextSched]_vars

\* process_auto_month on the calendar, with rows other handlers insert
NextCalendar ==
  \/ ProcessAutoMonth
  \/ \E t \in OtherTimes, avail \in BOOLEAN : OtherInsert(t, avail)

SpecCalendar == InitCalendar /\ [][NextCalendar]_vars

\* the confirm flow in the hands of every admin, with the clock and the
\* completion job
NextAdmins ==
  \/ \E h \in BookHours : AddSlot(h)
  \/ \E s \in SlotIds : CreateAppointment(s)
  \/ \E ad \in Admins, a \in ApptIds : ConfirmAppointment(ad, a)
  \/ \E ad \in Admins, p \in Prices : ProcessAppointmentPrice(ad, p)
  \/ Tick
  \/ CompletionSweep

SpecAdmins == Init /\ [][NextAdmins]_vars

\* booking, confirmation and cancellation against a database whose commit
\* may raise
NextFault ==
  \/ \E h \in BookHours : AddSlot(h)
  \/ \E s \in SlotIds : CreateAppointment(s)
  \/ \E ad \in OnDuty, a \in ApptIds : ConfirmAppointment(ad, a)
  \/ \E ad \in OnDuty, p \in Prices : ProcessAppointmentPrice(ad, p)
  \/ \E ad \in OnDuty, a \in ApptIds : AdminCancel(ad, a)

SpecFault == InitFaulty /\ [][NextFault]_vars

\* the confirm flow, the clock and both scheduler jobs against a database
\* and a network that may fail
NextSchedFault ==
  \/ \E h \in BookHours : AddSlot(h)
  \/ \E s \in SlotIds : CreateAppointment(s)
  \/ \E ad \in OnDuty, a \in ApptIds : ConfirmAppointment(ad, a)
  \/ \E ad \in OnDuty, p \in Prices : ProcessAppointmentPrice(ad, p)
  \/ Tick
  \/ CompletionSweep
  \/ ReminderTick

SpecSchedFault == InitFaulty /\ [][NextSchedFault]_vars

\* the confirm flow and the admin's cancellation while the scheduled run of
\* update_completed_appointments is suspended at its awaits; the admin enters
\* the service's own price
NextRace ==
  \/ \E h \in BookHours : AddSlot(h)
  \/ \E s \in SlotIds : CreateAppointment(s)
  \/ \E ad \in OnDuty, a \in ApptIds : ConfirmAppointment(ad, a)
  \/ \E ad \in OnDuty : ProcessAppointmentPrice(ad, ServicePrice)
  \/ \E ad \in OnDuty, a \in ApptIds : AdminCancel(ad, a)
  \/ Tick
  \/ SweepRead(1)
  \/ SweepFinish(1)

SpecRace == Init /\ [][NextRace]_vars

\* the confirm flow with the scheduled and the admin-triggered run of
\* update_completed_appointments interleaved at their awaits
NextSweeps ==
  \/ \E h \in BookHours : AddSlot(h)
  \/ \E s \in SlotIds : CreateAppointment(s)
  \/ \E ad \in OnDuty, a \in ApptIds : ConfirmAppointment(ad, a)
  \/ \E ad \in OnDuty : ProcessAppointmentPrice(ad, ServicePrice)
  \/ Tick
  \/ \E j \in SweepIds : SweepRead(j)
  \/ \E j \in SweepIds : SweepFinish(j)

SpecSweeps == Init /\ [][NextSweeps]_vars

\* booking, cancellation and the confirm flow in the hands of every admin,
\* each admin with an FSM state of their own
NextConfirms ==
  \/ \E h \in BookHours : AddSlot(h)
  \/ \E s \in SlotIds : CreateAppointment(s)
  \/ \E ad \in Admins, a \in ApptIds : ConfirmAppointment(ad, a)
  \/ \E ad \in Admins : ProcessAppointmentPrice(ad, ServicePrice)
  \/ \E ad \in Admins, a \in ApptIds : AdminCancel(ad, a)

SpecConfirms == Init /\ [][NextConfirms]_vars

\* the confirm flow and the admin's cancellation while a reminder tick is
\* suspended at its awaits
NextRemind ==
  \/ \E h \in BookHours : AddSlot(h)
  \/ \E s \in SlotIds : CreateAppointment(s)
  \/ \E ad \in OnDuty, a \in ApptIds : ConfirmAppointment(ad, a)
  \/ \E ad \in OnDuty : ProcessAppointmentPrice(ad, ServicePrice)
  \/ \E ad \in OnDuty, a \in ApptIds : AdminCancel(ad, a)
  \/ Tick
  \/ ReminderQuery
  \/ \E a \in ApptIds : ReminderSendClient(a)
  \/ ReminderSendAdmins
  \/ ReminderCommit

SpecRemind == Init /\ [][NextRemind]_vars

\* booking, the confirm flow of the admin on duty and the cancellations of
\* the other admins while a delete_time_slot is between its check and its
\* commit
NextDelete ==
  \/ \E h \in BookHours : AddSlot(h)
  \/ \E s \in SlotIds : CreateAppointment(s)
  \/ \E ad \in OnDuty, a \in ApptIds : ConfirmAppointment(ad, a)
  \/ \E ad \in OnDuty : ProcessAppointmentPrice(ad, ServicePrice)
  \/ \E ad \in Admins \ OnDuty, a \in ApptIds : AdminCancel(ad, a)
  \/ \E s \in SlotIds : DeleteRead(s)
  \/ DeleteCommit

SpecDelete == Init /\ [][NextDelete]_vars

\* the confirm flow, the clock and the completion job with the admin's
\* delete_time_slot
NextPurge ==
  \/ \E h \in BookHours : AddSlot(h)
  \/ \E s \in SlotIds : CreateAppointment(s)
  \/ \E ad \in OnDuty, a \in ApptIds : ConfirmAppointment(ad, a)
  \/ \E ad \in OnDuty : ProcessAppointmentPrice(ad, ServicePrice)
  \/ Tick
  \/ CompletionSweep
  \/ \E s \in SlotIds : DeleteSlot(s)

SpecPurge == Init /\ [][NextPurge]_vars

\* the confirm flow and the edit flow of the admin, the clock and the
\* completion job
NextEdit ==
  \/ \E h \in BookHours : AddSlot(h)
  \/ \E s \in SlotIds : CreateAppointment(s)
  \/ \E ad \in OnDuty, a \in ApptIds : ConfirmAppointment(ad, a)
  \/ \E ad \in OnDuty, p \in Prices : ProcessAppointmentPrice(ad, p)
  \/ \E ad \in OnDuty, a \in ApptIds : ProcessAppointmentId(ad, a)
  \/ \E ad \in OnDuty, p \in Prices : SaveEditedField(ad, p)
  \/ Tick
  \/ CompletionSweep

SpecEdit == Init /\ [][NextEdit]_vars

\* the interval trigger fires check_appointments_status again and again
SpecSweepFair == SpecAdmins /\ WF_vars(CompletionSweep)

(* ------------------------------ helpers ------------------------------- *)
Active(a) == appts[a].status \in ActiveStatuses
HourOf(a) == slots[appts[a].slot].date
IsCancelStep(l) == l.op \in {"admin_cancel", "client_cancel"} /\ l.res = "ok"

\* a row exists at hour h and no row at hour h is available
Blocked(S, h) == RowsAt(S, h) # {} /\ \A r \in RowsAt(S, h) : ~S[r].is_available

AllowedTransitions ==
  {<<"PENDING", "CONFIRMED">>, <<"PENDING", "CANCELLED">>,
   <<"CONFIRMED", "COMPLETED">>, <<"CONFIRMED", "CANCELLED">>}

(* ------------------------------- claims ------------------------------- *)

\* C1: in every reachable state at most one PENDING or CONFIRMED appointment
\* references any given TimeSlot row.
C1_OneActivePerSlot ==
  \A s \in DOMAIN slots : Cardinality(ActiveOn(appts, s)) <= 1

\* C2: of two create_appointment requests that both passed the is_available
\* check of the same slot before either committed, exactly one creates an
\* appointment and the other is rejected as slot-unavailable.
C2_ExactlyOneReserves ==
  \A t \in Tasks, u \in Tasks :
    (/\ t # u
     /\ tasks[t].pc = "done" /\ tasks[u].pc = "done"
     /\ tasks[u].peer = t /\ tasks[t].slot = tasks[u].slot)
    => {tasks[t].res, tasks[u].res} = {"ok", "rejected"}

\* C3: an appointment's status changes only along PENDING->CONFIRMED,
\* PENDING->CANCELLED, CONFIRMED->COMPLETED and CONFIRMED->CANCELLED, so a
\* CANCELLED or COMPLETED appointment never changes status again.
C3_StatusTransitions ==
  [][\A a \in DOMAIN appts \cap DOMAIN appts' :
       appts[a].status # appts'[a].status
         => <<appts[a].status, appts'[a].status>> \in AllowedTransitions]_vars

\* C4: process_appointment_price never confirms an appointment that is
\* CONFIRMED or CANCELLED when the price is submitted: such a submission is
\* rejected and changes neither appointments nor slots.
C4_ConfirmRejectsTerminal ==
  [][\A ad \in Admins :
       (/\ adminFsm[ad] \in DOMAIN appts
        /\ appts[adminFsm[ad]].status \in {"CONFIRMED", "CANCELLED"}
        /\ last'.op = "price" /\ last'.price > 0)
       => (last'.res # "ok" /\ appts' = appts /\ slots' = slots)]_vars

\* C5: a cancellation (admin or client path) of an appointment that is
\* already CANCELLED changes no slot flag and no appointment field and sends
\* no notification.
C5_CancelIdempotent ==
  [][\A a \in DOMAIN appts :
       (/\ appts[a].status = "CANCELLED"
        /\ IsCancelStep(last') /\ last'.appt = a)
       => (slots' = slots /\ appts' = appts /\ ~last'.sent)]_vars

\* C6: a create_appointment at hour h succeeds only when no other PENDING or
\* CONFIRMED appointment has its slot at h, h-1 or h+1.
C6_CreateRejectedNearActive ==
  [][(last'.op = "create" /\ last'.res = "ok")
       => \A b \in DOMAIN appts :
            Active(b) => HourOf(b) \notin {slots[last'.slot].date - 1,
                                           slots[last'.slot].date,
                                           slots[last'.slot].date + 1}]_vars

\* C7: right after a successful create_appointment at hour h the new
\* appointment is PENDING and the hours h-1, h and h+1 all have a row and no
\* available row; a create that follows it on a slot at h-1 or h+1 is
\* rejected and changes no slot and no appointment.
C7_CreateBlocksNeighbours ==
  [][/\ (last'.op = "create" /\ last'.res = "ok")
          => /\ last'.appt \in DOMAIN appts' \ DOMAIN appts
             /\ appts'[last'.appt].status = "PENDING"
             /\ appts'[last'.appt].slot = last'.slot
             /\ \A d \in {-1, 0, 1} : Blocked(slots', slots'[last'.slot].date + d)
     /\ (/\ last.op = "create" /\ last.res = "ok"
         /\ last'.op = "create" /\ last'.slot \in DOMAIN slots
         /\ slots[last'.slot].date \in {slots[last.slot].date - 1,
                                        slots[last.slot].date + 1})
          => (last'.res = "rejected" /\ slots' = slots /\ appts' = appts)]_vars

\* a create at h-1 or h+1 was rejected right after the create at h succeeded
C7_Witness ==
  /\ last.op = "create" /\ last.res = "rejected" /\ last.slot \in DOMAIN slots
  /\ last.follows \in DOMAIN appts
  /\ appts[last.follows].status = "PENDING"
  /\ slots[last.slot].date \in {HourOf(last.follows) - 1, HourOf(last.follows) + 1}
  /\ \A d \in {-1, 0, 1} : Blocked(slots, HourOf(last.follows) + d)

\* C8: in every reachable state the hours before and after a CONFIRMED
\* appointment have a row and no available row.
C8_ConfirmedBufferBlocked ==
  \A a \in DOMAIN appts :
    appts[a].status = "CONFIRMED"
      => Blocked(slots, HourOf(a) - 1) /\ Blocked(slots, HourOf(a) + 1)

\* C9: right after process_appointment_price confirms appointment A at hour
\* h, A is CONFIRMED with confirmed_at set and final_price equal to the
\* submitted price, and the hours h-1 and h+1 have a row and no available row.
C9_ConfirmSetsFieldsAndBuffer ==
  (last.op = "price" /\ last.res = "ok")
    => /\ last.appt \in DOMAIN appts
       /\ appts[last.appt].status = "CONFIRMED"
       /\ appts[last.appt].confirmed_at
       /\ appts[last.appt].final_price = last.price
       /\ last.price > 0
       /\ Blocked(slots, HourOf(last.appt) - 1)
       /\ Blocked(slots, HourOf(last.appt) + 1)

\* a confirmation with a price other than the service's that had to insert
\* a missing buffer row
C9_Witness ==
  /\ last.op = "price" /\ last.res = "ok"
  /\ appts[last.appt].status = "CONFIRMED"
  /\ appts[last.appt].final_price # ServicePrice
  /\ last.inserted # {}

\* C10: a cancellation of a CONFIRMED appointment at hour h leaves its own
\* slot available and every existing row at h-1 and at h+1 available.
C10_CancelReleasesBothBuffers ==
  [][\A a \in DOMAIN appts :
       (/\ appts[a].status = "CONFIRMED"
        /\ IsCancelStep(last') /\ last'.appt = a)
       => /\ slots'[appts[a].slot].is_available
          /\ \A r \in RowsAt(slots', HourOf(a) - 1) \cup RowsAt(slots', HourOf(a) + 1) :
               slots'[r].is_available]_vars

\* C11: a cancellation of a PENDING appointment (confirmed_at unset) makes its
\* own slot available and changes nothing else: every other slot row, the
\* blocked rows at h-1 and h+1 included, and every other appointment stay as
\* they were, and of the appointment only status and reason change.
C11_PendingCancelFrame ==
  [][\A a \in DOMAIN appts :
       (/\ appts[a].status = "PENDING" /\ ~appts[a].confirmed_at
        /\ IsCancelStep(last') /\ last'.appt = a)
       => /\ slots' = [slots EXCEPT ![appts[a].slot].is_available = TRUE]
          /\ appts' = [appts EXCEPT
                         ![a].status = "CANCELLED",
                         ![a].cancellation_reason = appts'[a].cancellation_reason]
          /\ appts'[a].cancellation_reason \in {AdminReason, ClientReason}]_vars

\* a never-confirmed appointment was cancelled: its slot is available and
\* the rows at h-1 and h+1 are still blocked
C11_Witness ==
  /\ IsCancelStep(last) /\ last.appt \in DOMAIN appts
  /\ appts[last.appt].status = "CANCELLED" /\ ~appts[last.appt].confirmed_at
  /\ slots[last.slot].is_available
  /\ Blocked(slots, HourOf(last.appt) - 1)
  /\ Blocked(slots, HourOf(last.appt) + 1)

\* C12: a run of update_completed_appointments at time now takes an
\* appointment to COMPLETED exactly when it is CONFIRMED and
\* now > slot start + service duration; it changes no PENDING, CANCELLED or
\* COMPLETED appointment and nothing else of a CONFIRMED one.
C12_SweepCompletesExactlyExpired ==
  [][(sched' # sched /\ sched'.op = "sweep")
       => /\ DOMAIN appts' = DOMAIN appts
          /\ \A a \in DOMAIN appts :
               /\ (appts[a].status # "COMPLETED" /\ appts'[a].status = "COMPLETED")
                    <=> (/\ appts[a].status = "CONFIRMED"
                         /\ now > Start(HourOf(a)) + ServiceDuration)
               /\ appts[a].status # "CONFIRMED" => appts'[a] = appts[a]
               /\ appts'[a] \in {appts[a], [appts[a] EXCEPT !.status = "COMPLETED"]}]_vars

\* a sweep completed an appointment and left alone a CONFIRMED one whose
\* slot has started and whose service ends at this very instant
C12_Witness ==
  /\ sched.op = "sweep" /\ sched.at = now /\ sched.selected # {}
  /\ \A a \in sched.selected : appts[a].status = "COMPLETED"
  /\ \E b \in DOMAIN appts : /\ appts[b].status = "CONFIRMED"
                              /\ Start(HourOf(b)) < now
                              /\ now = Start(HourOf(b)) + ServiceDuration

\* C13: in one reminder tick an appointment's notified flag becomes TRUE if
\* and only if that tick selected it and its customer message and the
\* message to every admin of settings.admin_ids were all delivered in that
\* tick; any failed send leaves the flag FALSE, and the tick writes nothing
\* else.
C13_NotifiedIffAllSent ==
  [][/\ DOMAIN appts' = DOMAIN appts \/ sched' = sched
     /\ \A a \in DOMAIN appts \cap DOMAIN appts' :
          /\ (~appts[a].notified /\ appts'[a].notified)
                <=> /\ sched' # sched
                    /\ sched'.op = "reminder"
                    /\ a \in sched'.selected
                    /\ a \in sched'.client
                    /\ \A ad \in Admins : <<a, ad>> \in sched'.admins
          /\ (sched' # sched /\ sched'.op = "reminder")
                => appts'[a] \in {appts[a], [appts[a] EXCEPT !.notified = TRUE]}]_vars

\* a tick whose customer message and one admin message went out while the
\* other admin's message failed: the flag stays FALSE
C13_Witness ==
  /\ sched.op = "reminder"
  /\ \E a \in sched.selected :
       /\ a \in sched.client
       /\ \E ad \in Admins : <<a, ad>> \in sched.admins
       /\ \E ad \in Admins : <<a, ad>> \notin sched.admins
       /\ ~appts[a].notified

\* C14: a committed notified flag is never cleared and no later reminder
\* tick selects the appointment or sends anything for it; an appointment that
\* is CONFIRMED, not notified and starts within the next hour is selected by
\* every reminder tick, which sends only for what it selected.
C14_NotifiedOnceRetriedUntil ==
  [][\A a \in DOMAIN appts \cap DOMAIN appts' :
       /\ appts[a].notified => appts'[a].notified
       /\ (sched' # sched /\ sched'.op = "reminder")
            => /\ appts[a].notified
                    => /\ a \notin sched'.selected
                       /\ a \notin sched'.client
                       /\ \A ad \in Admins : <<a, ad>> \notin sched'.admins
               /\ (/\ appts[a].status = "CONFIRMED"
                   /\ ~appts[a].notified
                   /\ Start(HourOf(a)) > now
                   /\ Start(HourOf(a)) <= now + TicksPerHour)
                    => a \in sched'.selected
               /\ sched'.client \subseteq sched'.selected
               /\ sched'.admins \subseteq sched'.selected \X Admins]_vars

\* a reminder tick that ran while a notified appointment was still CONFIRMED
\* and inside the hour before its start, and left it alone
C14_Witness ==
  /\ sched.op = "reminder"
  /\ sched.at = now
  /\ \E a \in DOMAIN appts :
       /\ appts[a].status = "CONFIRMED"
       /\ appts[a].notified
       /\ Start(HourOf(a)) > now
       /\ Start(HourOf(a)) <= now + TicksPerHour
       /\ a \notin sched.selected

\* C15: the completion sweep sets COMPLETED for every expired CONFIRMED
\* appointment whether or not its completion message was delivered, and an
\* appointment send_completion_message was once called for is never
\* completed, and so messaged, by a later sweep.
C15_CompletedOnceDespiteFailedSend ==
  [][\A a \in DOMAIN appts \cap DOMAIN appts' :
       /\ (/\ sched' # sched
           /\ sched'.op = "sweep"
           /\ a \in sched'.selected \ sched'.client)
            => appts'[a].status = "COMPLETED"
       /\ a \in swept
            => ~(appts[a].status = "CONFIRMED" /\ appts'[a].status = "COMPLETED")]_vars

\* C16: with the completion sweep running again and again, every appointment
\* that is CONFIRMED once the clock has passed its start plus the service
\* duration is eventually COMPLETED (unless it is cancelled first), whatever
\* else the same sweeps process.
C16_ExpiredEventuallyCompleted ==
  \A a \in ApptIds :
    (/\ a \in DOMAIN appts
     /\ appts[a].status = "CONFIRMED"
     /\ now > Start(HourOf(a)) + ServiceDuration)
      ~> (a \in DOMAIN appts /\ appts[a].status \in {"COMPLETED", "CANCELLED"})

\* one sweep that completed two expired appointments together
C16_Witness ==
  /\ sched.op = "sweep"
  /\ Cardinality(sched.selected) > 1
  /\ \A a \in sched.selected : appts[a].status = "COMPLETED"

\* C17: no two TimeSlot rows carry the same date, also when
\* create_appointment, process_appointment_price, process_auto_month and the
\* manual slot creation run concurrently and each inserts a row for an hour
\* it found missing.
C17_UniqueSlotDates ==
  \A s \in DOMAIN slots, r \in DOMAIN slots :
    slots[s].date = slots[r].date => s = r

\* C18: process_auto_month never inserts a row for a timestamp that already
\* has a row, buffer rows of bookings included, and a second run right after
\* a first one inserts nothing.
C18_AutoMonthIdempotent ==
  [][last'.op = "auto_month"
       => /\ \A i \in DOMAIN slots' \ DOMAIN slots : RowsAt(slots, slots'[i].date) = {}
          /\ last.op = "auto_month" => slots' = slots]_vars

\* a run that inserted nothing although an hour had only the buffer row a
\* booking left there
C18_Witness ==
  /\ last.op = "auto_month"
  /\ last.res = "nothing"
  /\ \A h \in BookHours : Cardinality(RowsAt(slots, h)) = 1
  /\ \E i \in DOMAIN slots :
       /\ slots[i].date \in BookHours
       /\ ~slots[i].is_available
       /\ \A a \in DOMAIN appts : appts[a].slot # i

\* C19: process_auto_month inserts only rows that are available, lie
\* strictly after the current time, on a day from max(today, first of the
\* month) to the last day of the month, at hours 9..16 Monday to Friday and
\* 10..12 on Saturday, never on a Sunday; it changes no existing row.
C19_AutoMonthCalendar ==
  [][cal'.op = "auto_month"
       => /\ cal.rows \subseteq cal'.rows
          /\ \A r \in cal'.rows \ cal.rows :
               LET d == DayOf(r.date)
                   h == HourOfDay(r.date)
                   wd == Weekday(cal.first, d)
               IN /\ r.is_available
                  /\ r.date > cal.now
                  /\ d >= 1 /\ d >= DayOf(cal.now) /\ d <= MonthLen
                  /\ wd # 6
                  /\ wd \in 0..4 => h \in 9..16
                  /\ wd = 5 => h \in 10..12]_vars

\* a run started at an hour of today's schedule: that hour got no row, a
\* Saturday got its 12:00 row and a weekday its 16:00 row, and a blocked row
\* that was there before is still the only row of its hour
C19_Witness ==
  /\ cal.op = "auto_month"
  /\ DayOf(cal.now) \in 1..MonthLen
  /\ HourOfDay(cal.now) \in TimeRanges(Weekday(cal.first, DayOf(cal.now)))
  /\ \A r \in cal.rows : r.date # cal.now
  /\ \E r \in cal.rows :
       r.is_available /\ Weekday(cal.first, DayOf(r.date)) = 5 /\ HourOfDay(r.date) = 12
  /\ \E r \in cal.rows :
       r.is_available /\ Weekday(cal.first, DayOf(r.date)) < 5 /\ HourOfDay(r.date) = 16
  /\ \E r \in cal.rows :
       ~r.is_available /\ r.date > cal.now /\ \A x \in cal.rows : x.date = r.date => x = r

\* C20: when the customer notification fails after process_appointment_price
\* or cancel_appointment has committed, the database keeps what was
\* committed: CONFIRMED with confirmed_at and final_price and the neighbour
\* hours blocked, or CANCELLED with its reason and the slot released.
C20_CommittedDespiteFailedSend ==
  [][(last'.res = "ok" /\ ~last'.sent /\ last'.op \in {"price", "admin_cancel"})
       => LET a == last'.appt
              s == appts[a].slot
              h == slots[s].date
          IN  IF last'.op = "price"
              THEN /\ appts' = [appts EXCEPT ![a].status = "CONFIRMED",
                                             ![a].confirmed_at = TRUE,
                                             ![a].final_price = last'.price]
                   /\ \A i \in DOMAIN slots :
                        /\ i \in DOMAIN slots'
                        /\ slots'[i].date = slots[i].date
                        /\ slots'[i].is_available
                             = (slots[i].is_available /\ slots[i].date \notin {h - 1, h + 1})
                   /\ \A g \in {h - 1, h + 1} :
                        \E i \in DOMAIN slots' :
                          slots'[i].date = g /\ ~slots'[i].is_available
              ELSE /\ appts'[a].status = "CANCELLED"
                   /\ appts'[a].cancellation_reason = AdminReason
                   /\ appts' = [appts EXCEPT ![a] = appts'[a]]
                   /\ slots'[s].is_available
                   /\ slots' # slots \/ slots[s].is_available]_vars

\* a confirmation whose customer message could not be delivered: the
\* appointment is CONFIRMED with its price and both neighbour hours blocked
C20_Witness ==
  /\ last.op = "price"
  /\ last.res = "ok"
  /\ ~last.sent
  /\ last.appt \in DOMAIN appts
  /\ appts[last.appt].status = "CONFIRMED"
  /\ appts[last.appt].confirmed_at
  /\ appts[last.appt].final_price = last.price
  /\ Blocked(slots, HourOf(last.appt) + 1)
  /\ Blocked(slots, HourOf(last.appt) - 1)

\* C21: when the commit of create_appointment, process_appointment_price or
\* cancel_appointment raises, nothing the operation wrote is persisted: no
\* new appointment or slot row, no is_available change, no status change.
C21_FailedCommitPersistsNothing ==
  [][last'.res = "commit_failed"
       => /\ last'.op \in {"create", "price", "admin_cancel"}
          /\ slots' = slots
          /\ appts' = appts]_vars

\* a cancellation whose commit raised: the appointment is still active and
\* its slot still taken
C21_Witness ==
  /\ last.res = "commit_failed"
  /\ last.op = "admin_cancel"
  /\ last.appt \in DOMAIN appts
  /\ appts[last.appt].status \in ActiveStatuses
  /\ ~slots[last.slot].is_available

\* C22: an exception raised inside a reminder tick or a completion tick is
\* caught within the tick: the scheduler keeps running, and the tick of either
\* job that comes after it selects and processes what is due as usual.
C22_TickExceptionsCaught ==
  [][/\ running'
     /\ (sched.op \in {"sweep_aborted", "reminder_aborted"} /\ sched' # sched)
          => /\ sched'.op = "sweep"
                  => /\ sched'.selected
                          = {a \in DOMAIN appts :
                               /\ appts[a].status = "CONFIRMED"
                               /\ now > Start(HourOf(a)) + ServiceDuration}
                     /\ \A a \in sched'.selected : appts'[a].status = "COMPLETED"
             /\ sched'.op = "reminder"
                  => sched'.selected
                       = {a \in DOMAIN appts :
                            /\ appts[a].status = "CONFIRMED"
                            /\ ~appts[a].notified
                            /\ Start(HourOf(a)) > now
                            /\ Start(HourOf(a)) <= now + TicksPerHour}]_vars

\* a reminder tick that raised after it had reached a customer: the
\* scheduler is still running
C22_Witness ==
  /\ sched.op = "reminder_aborted"
  /\ sched.client # {}
  /\ running
  /\ faults = 0

\* C23: a completion tick that aborts before its commit changes no
\* appointment: every candidate is still CONFIRMED and expired afterwards, and
\* the next completion tick selects it again.
C23_AbortedSweepChangesNothing ==
  [][/\ (sched' # sched /\ sched'.op = "sweep_aborted")
          => /\ appts' = appts
             /\ \A a \in sched'.selected :
                  /\ appts'[a].status = "CONFIRMED"
                  /\ now' > Start(slots'[appts'[a].slot].date) + ServiceDuration
     /\ (sched.op = "sweep_aborted" /\ sched' # sched /\ sched'.op = "sweep")
          => {a \in sched.selected : appts[a].status = "CONFIRMED"}
               \subseteq sched'.selected]_vars

\* a completion tick that raised after a completion message had gone out:
\* its candidates are all still CONFIRMED
C23_Witness ==
  /\ sched.op = "sweep_aborted"
  /\ sched.client # {}
  /\ \A a \in sched.selected : appts[a].status = "CONFIRMED"

\* C24: when the rows at h-1 and h+1 exist with is_available = FALSE, as
\* create_appointment left them, confirming the appointment at h inserts no
\* TimeSlot row and changes no is_available flag.
C24_ConfirmKeepsAppliedBuffer ==
  [][(/\ last'.op = "price"
      /\ last'.res = "ok"
      /\ Blocked(slots, HourOf(last'.appt) - 1)
      /\ Blocked(slots, HourOf(last'.appt) + 1))
       => slots' = slots]_vars

\* a confirmation that found both neighbour rows and left the three rows of
\* the booking as they were
C24_Witness ==
  /\ last.op = "price"
  /\ last.res = "ok"
  /\ last.inserted = {}
  /\ appts[last.appt].status = "CONFIRMED"
  /\ \A g \in {HourOf(last.appt) - 1, HourOf(last.appt) + 1} :
       Cardinality(RowsAt(slots, g)) = 1 /\ Blocked(slots, g)

\* C25: the reminder sweep changes only the notified field and the completion
\* sweep only the status field of the appointments they process; neither
\* changes a TimeSlot row or any field of another appointment.
C25_SweepFrames ==
  [][(sched' # sched /\ sched'.op \in {"sweep", "reminder"})
       => /\ slots' = slots
          /\ DOMAIN appts' = DOMAIN appts
          /\ \A a \in DOMAIN appts :
               /\ a \notin sched'.selected => appts'[a] = appts[a]
               /\ sched'.op = "sweep"
                    => appts'[a] = [appts[a] EXCEPT !.status = appts'[a].status]
               /\ sched'.op = "reminder"
                    => appts'[a] = [appts[a] EXCEPT !.notified = appts'[a].notified]]_vars

\* a completion sweep that completed one appointment while another one,
\* which it had not selected, exists, and the completed one's slot is still
\* unavailable
C25_Witness ==
  /\ sched.op = "sweep"
  /\ sched.at = now
  /\ \E a \in sched.selected :
       /\ appts[a].status = "COMPLETED"
       /\ ~slots[appts[a].slot].is_available
  /\ \E b \in DOMAIN appts : b \notin sched.selected /\ appts[b].status = "CONFIRMED"

\* C26: the TimeSlot a PENDING or CONFIRMED appointment refers to always has
\* is_available = FALSE; no cancellation of another appointment and no
\* repeated cancellation sets it back to TRUE.
C26_ActiveSlotUnavailable ==
  \A a \in DOMAIN appts :
    appts[a].status \in ActiveStatuses => ~slots[appts[a].slot].is_available

\* C27: when a cancellation of an appointment has committed while a completion
\* run that had read the appointment as CONFIRMED was suspended, the run's
\* later commit leaves the appointment CANCELLED.
C27_CancelSurvivesSweepCommit ==
  [][\A j \in SweepIds :
       (jobs.sweep[j].pc = "sending" /\ jobs'.sweep[j].pc = "idle")
         => \A a \in jobs.sweep[j].read :
              appts[a].status = "CANCELLED" => appts'[a].status = "CANCELLED"]_vars

\* C28: no two CONFIRMED appointments have the same slot start time, also
\* when two admins run the confirm flow for two appointments on that time.
C28_NoTwoConfirmedOnOneTime ==
  \A a, b \in DOMAIN appts :
    (a # b /\ appts[a].status = "CONFIRMED" /\ appts[b].status = "CONFIRMED")
      => HourOf(a) # HourOf(b)

\* C29: send_completion_message is called at most once per appointment: a run
\* of update_completed_appointments, scheduled or started by an admin, sends
\* to no appointment an earlier or concurrent run has already sent to.
C29_CompletionMessageOnce ==
  [][\A j \in SweepIds :
       (jobs.sweep[j].pc = "sending" /\ jobs'.sweep[j].pc = "idle")
         => jobs.sweep[j].read \cap swept = {}]_vars

\* C30: whenever a reminder tick sends for an appointment, to its customer or
\* to the admins, the appointment is CONFIRMED with notified = FALSE at that
\* moment; one cancelled after the tick's query gets no reminder.
C30_ReminderOnlyForConfirmed ==
  [][/\ (jobs.reminder.pc = "next" /\ jobs'.reminder.pc = "admins")
          => /\ appts[jobs'.reminder.cur].status = "CONFIRMED"
             /\ ~appts[jobs'.reminder.cur].notified
     /\ (jobs.reminder.pc = "admins" /\ jobs'.reminder.pc = "next")
          => /\ appts[jobs.reminder.cur].status = "CONFIRMED"
             /\ ~appts[jobs.reminder.cur].notified]_vars

\* C31: delete_time_slot removes no slot that has a PENDING or CONFIRMED
\* appointment at the moment of its commit, also when another handler has
\* committed since its check, and after every step every appointment refers
\* to an existing TimeSlot row.
C31_DeleteKeepsActiveSlots ==
  [][/\ \A s \in DOMAIN slots \ DOMAIN slots' : ActiveOn(appts, s) = {}
     /\ \A a \in DOMAIN appts' : appts'[a].slot \in DOMAIN slots']_vars

\* C32: every appointment delete_time_slot deletes together with a slot is
\* CANCELLED; it never deletes a COMPLETED appointment.
C32_DeleteOnlyCancelled ==
  [][\A a \in DOMAIN appts \ DOMAIN appts' : appts[a].status = "CANCELLED"]_vars

\* C33: after every step an appointment that is CONFIRMED or COMPLETED has
\* confirmed_at set and final_price > 0, and confirmed_at is set only on an
\* appointment that had it set before or that the step leaves CONFIRMED.
C33_ConfirmedHasTimeAndPrice ==
  [][\A a \in DOMAIN appts' :
       /\ appts'[a].status \in {"CONFIRMED", "COMPLETED"}
            => appts'[a].confirmed_at /\ appts'[a].final_price > 0
       /\ appts'[a].confirmed_at
            => \/ a \in DOMAIN appts /\ appts[a].confirmed_at
               \/ appts'[a].status = "CONFIRMED"]_vars

\* C34: no appointment becomes CONFIRMED at a time later than the start of
\* its slot; the past-date rejection of confirm_appointment holds for the
\* price step of the confirm flow as well.
C34_NoConfirmAfterStart ==
  [][\A a \in DOMAIN appts \cap DOMAIN appts' :
       (appts[a].status # "CONFIRMED" /\ appts'[a].status = "CONFIRMED")
         => now <= Start(HourOf(a))]_vars
====
